---- MODULE Spec2Model ----
(***************************************************************************)
(* PayBoard: the services ("servicios") router.                            *)
(*                                                                         *)
(* A model of backend/src/routes/servicios.js: listing with auto-expiry,   *)
(* creation with monthly recurrence expansion, partial update, status      *)
(* change with its expense-transaction side effects, and deletion with the *)
(* cascade to payment records.  Dates are instants in whole seconds since  *)
(* the epoch (the code never reads milliseconds other than through `<`).   *)
(***************************************************************************)
EXTENDS Integers, Sequences, FiniteSets, TLC

\* ------------------------------------------------------------------------
\* JavaScript values the handlers read from a request
\* ------------------------------------------------------------------------

\* A field absent from the JSON body (`undefined`), and JSON null.
UNDEF == "<undefined>"
NULL == "<null>"

\* parseInt's NaN, and the time value of an Invalid Date: a number that is no
\* parsed segment (a segment holds no sign) and no instant of the model.
NaN == -999999

\* ------------------------------------------------------------------------
\* Calendar arithmetic of the Date built-ins (proleptic Gregorian, UTC)
\* ------------------------------------------------------------------------

\* Days from 1970-01-01 to the first day of year y, month index 0 (MakeDay's
\* year part), then to day `d` of month m (1..12); d may lie outside the month.
DaysFromCivil(y, m, d) ==
  LET yy  == IF m <= 2 THEN y - 1 ELSE y
      era == yy \div 400
      yoe == yy - era * 400
      mp  == (m + 9) % 12
      doy == (153 * mp + 2) \div 5 + d - 1
      doe == yoe * 365 + yoe \div 4 - yoe \div 100 + doy
  IN  era * 146097 + doe - 719468

\* The calendar date of a day number: [y, m, d].
CivilFromDays(z) ==
  LET zz  == z + 719468
      era == zz \div 146097
      doe == zz - era * 146097
      yoe == (doe - doe \div 1460 + doe \div 36524 - doe \div 146096) \div 365
      doy == doe - (365 * yoe + yoe \div 4 - yoe \div 100)
      mp  == (5 * doy + 2) \div 153
      d   == doy - (153 * mp + 2) \div 5 + 1
      m   == IF mp < 10 THEN mp + 3 ELSE mp - 9
      y   == yoe + era * 400 + (IF m <= 2 THEN 1 ELSE 0)
  IN  [y |-> y, m |-> m, d |-> d]

\* Date.UTC(year, monthIndex, day, h, mi, s) in seconds; NaN in, NaN out.
\* A month index outside 0..11 carries into the year, a day outside the
\* month carries into the following months.
DateUTC(year, monthIndex, day, h, mi, s) ==
  IF year = NaN \/ monthIndex = NaN \/ day = NaN THEN NaN
  ELSE LET y == year + monthIndex \div 12
           m == (monthIndex % 12) + 1
       IN  DaysFromCivil(y, m, day) * 86400 + h * 3600 + mi * 60 + s

getUTCFullYear(t) == IF t = NaN THEN NaN ELSE CivilFromDays(t \div 86400).y
getUTCMonth(t) == IF t = NaN THEN NaN ELSE CivilFromDays(t \div 86400).m - 1
getUTCDate(t) == IF t = NaN THEN NaN ELSE CivilFromDays(t \div 86400).d
SecondsOfDay(t) == t % 86400

\* ------------------------------------------------------------------------
\* Strings: a date string is the sequence of its characters
\* ------------------------------------------------------------------------

DigitChars == <<"0", "1", "2", "3", "4", "5", "6", "7", "8", "9">>
IsDigit(c) == \E i \in 1..10 : DigitChars[i] = c
DigitVal(c) == (CHOOSE i \in 1..10 : DigitChars[i] = c) - 1

\* String.prototype.slice(0, n)
slice0(str, n) == SubSeq(str, 1, IF Len(str) < n THEN Len(str) ELSE n)

\* String.prototype.split(sep): the segments between the separators.
RECURSIVE split(_, _)
split(str, sep) ==
  IF \A i \in 1..Len(str) : str[i] # sep THEN <<str>>
  ELSE LET k == CHOOSE i \in 1..Len(str) :
                  str[i] = sep /\ \A j \in 1..(i - 1) : str[j] # sep
       IN  <<SubSeq(str, 1, k - 1)>> \o split(SubSeq(str, k + 1, Len(str)), sep)

\* parseInt(str, 10) of an unsigned segment: the value of the longest prefix
\* of digits, NaN when the segment does not start with a digit.
RECURSIVE DigitsValue(_, _)
DigitsValue(str, acc) ==
  IF str = <<>> \/ ~IsDigit(Head(str)) THEN acc
  ELSE DigitsValue(Tail(str), acc * 10 + DigitVal(Head(str)))

parseInt(str) ==
  IF str = <<>> \/ ~IsDigit(Head(str)) THEN NaN ELSE DigitsValue(str, 0)

\* new Date(string) for the strings that reach it (fewer or more than three
\* '-' segments in the first ten characters): the ISO date-only forms YYYY and
\* YYYY-MM are UTC midnight of the first day; anything else the model feeds
\* it is an Invalid Date.
DateParse(str) ==
  LET segs == split(str, "-")
      allDigits(x) == x # <<>> /\ \A i \in 1..Len(x) : IsDigit(x[i])
  IN  IF Len(segs) = 1 /\ Len(segs[1]) = 4 /\ allDigits(segs[1])
        THEN DateUTC(parseInt(segs[1]), 0, 1, 0, 0, 0)
      ELSE IF /\ Len(segs) = 2 /\ Len(segs[1]) = 4 /\ Len(segs[2]) = 2
              /\ allDigits(segs[1]) /\ allDigits(segs[2])
              /\ parseInt(segs[2]) \in 1..12
        THEN DateUTC(parseInt(segs[1]), parseInt(segs[2]) - 1, 1, 0, 0, 0)
      ELSE NaN

\* A request's date value: absent, null, a string, or a Date object.
Undefined == [t |-> "undefined"]
Null == [t |-> "null"]
Str(chars) == [t |-> "string", s |-> chars]
DateObj(instant) == [t |-> "date", v |-> instant]

\* !x for such a value
Falsy(x) == x.t \in {"undefined", "null"} \/ (x.t = "string" /\ x.s = <<>>)

\* ------------------------------------------------------------------------
\* toUtcNoon
\* ------------------------------------------------------------------------

\* m - 1 and m + i on numbers that may be NaN
Minus(a, b) == IF a = NaN \/ b = NaN THEN NaN ELSE a - b
Plus(a, b) == IF a = NaN \/ b = NaN THEN NaN ELSE a + b

\* new Date(Date.UTC(y, m - 1, d, 12, 0, 0)) from a date's UTC fields
NoonOf(tmp) ==
  LET y == getUTCFullYear(tmp)
      m == Plus(getUTCMonth(tmp), 1)
      d == getUTCDate(tmp)
  IN  DateObj(DateUTC(y, Minus(m, 1), d, 12, 0, 0))

\* Mutant of toUtcNoon: the date is built through the zone-dependent
\* constructor of a server west of UTC, new Date(y, m - 1, d), and so lands on
\* the evening of the day before in UTC plus twelve hours.
toUtcNoonLocal(dateInput) ==
  IF Falsy(dateInput) THEN Null
  ELSE IF dateInput.t = "string"
    THEN LET segs == split(slice0(dateInput.s, 10), "-")
         IN  IF Len(segs) = 3
               THEN DateObj(DateUTC(parseInt(segs[1]),
                                    Minus(parseInt(segs[2]), 1),
                                    parseInt(segs[3]), 3, 0, 0))
             ELSE NoonOf(DateParse(dateInput.s))
  ELSE NoonOf(dateInput.v)

\* toUtcNoon returns null for a falsy input, else a Date (an Invalid Date,
\* of time value NaN, when a part does not parse).
toUtcNoon(dateInput) ==
  IF Falsy(dateInput) THEN Null
  ELSE IF dateInput.t = "string"
    THEN LET part == slice0(dateInput.s, 10)
             segs == split(part, "-")
         IN  IF Len(segs) = 3
               THEN LET y == parseInt(segs[1])
                        m == parseInt(segs[2])
                        d == parseInt(segs[3])
                    IN  DateObj(DateUTC(y, Minus(m, 1), d, 12, 0, 0))
             ELSE NoonOf(DateParse(dateInput.s))
  ELSE NoonOf(dateInput.v)

\* ------------------------------------------------------------------------
\* The store (Prisma models servicio, transaccion, pago) and the request state
\* ------------------------------------------------------------------------

VARIABLES
  servicios,          \* rows of servicio
  transacciones,      \* rows of transaccion
  pagos,              \* rows of pago
  nextServicioId,     \* autoincrement counters of the three tables
  nextTransaccionId,
  nextPagoId,
  clock,              \* index of the wall-clock instant `new Date()` returns
  last,               \* the request being answered and what it did
  res,                \* the body of its response
  prevPagado,         \* the service id when the request answered before
                      \* `last` was a successful PATCH estado=pagado, else 0
  del,                \* the DELETE in flight between two store calls, if any
  runs,               \* the GET and PATCH handlers in flight, each between
                      \* two of its store calls
  page,               \* the kanban page: its list of services and the
                      \* position of its pay action
  prevTransacciones   \* the transactions before the request answered
                      \* before `last`, where the specification records them

vars == <<servicios, transacciones, pagos, nextServicioId, nextTransaccionId,
          nextPagoId, clock, last, res, prevPagado, del, runs, page,
          prevTransacciones>>

store == <<servicios, transacciones, pagos>>
counters == <<nextServicioId, nextTransaccionId, nextPagoId>>

\* Bounds of the model
MaxServicioId == 1
MaxTransacciones == 2
MaxPagos == 1
MaxClock == 1

Users == {"ana", "beto"}

\* new Date(): the instants the clock steps through, 2025-01-15T09:00:00Z and
\* then every 20 days.
ClockBase == DateUTC(2025, 0, 15, 9, 0, 0)
ClockStep == 20 * 86400
Now == ClockBase + clock * ClockStep

Idle == [step |-> "idle"]

NoRequest ==
  [op |-> "none", u |-> "", id |-> 0, body |-> [t |-> "undefined"],
   status |-> 0, created |-> {}, deleted |-> {}, updated |-> {}]

\* The server takes requests one after another: the next one starts when the
\* response to the last one is out.
Ready == del = Idle /\ last = NoRequest

\* A handler between two of its awaited store calls: the request, what the
\* handler holds in its local variables, and its response once it returned.
Slots == {"a", "b"}

NoRun ==
  [op |-> "none", pc |-> "idle", u |-> "", id |-> 0, estado |-> "",
   query |-> [mes |-> <<>>, anio |-> <<>>, anho |-> <<>>], tz |-> 0,
   today |-> 0, pending |-> {}, service |-> [t |-> "undefined"],
   status |-> 0, body |-> [t |-> "undefined"], created |-> {},
   primero |-> FALSE, antes |-> {}, antesTransacciones |-> {},
   req |-> [t |-> "undefined"]]

\* The page before its first load: useState([]), no pay action under way.
NoPage ==
  [lista |-> {}, pc |-> "idle", s |-> [t |-> "undefined"],
   updated |-> [t |-> "undefined"], pago |-> 0]

\* A handler taken as one step, and the environment, leave the handlers in
\* flight, the page and the record of earlier transactions alone.
Quiet == UNCHANGED <<runs, page, prevTransacciones>>

\* ------------------------------------------------------------------------
\* Responses
\* ------------------------------------------------------------------------

\* What a handler leaves behind when it returns: the request, the status
\* code, the rows it created and deleted, the ids of the rows it updated,
\* and the response body.
None == [created |-> {}, deleted |-> {}, updated |-> {}]

Respond(op, u, id, body, status, did, out) ==
  /\ last' = [op |-> op, u |-> u, id |-> id, body |-> body, status |-> status,
              created |-> did.created, deleted |-> did.deleted,
              updated |-> did.updated]
  /\ res' = out
  /\ UNCHANGED prevPagado

ServerError == [error |-> "Server error"]
NotFoundError == [error |-> "Servicio not found"]

\* findUnique({ where: { id } }): the rows with that id (none or one)
findUnique(id) == {s \in servicios : s.id = id}

\* Mutant of the check: the owner is not compared.
NotFoundSinDuenho(u, id) == {s \in servicios : s.id = id} = {}

\* !service || service.userId !== req.user.id
NotFound(u, id) == \A s \in findUnique(id) : s.userId # u

\* !x for a string field of the body
FalsyStr(x) == x \in {UNDEF, NULL, ""}

\* String(monto)
String(monto) ==
  IF monto.t = "number" THEN ToString(monto.n)
  ELSE IF monto.t = "null" THEN "null"
  ELSE monto.s

\* x || fallback for a string field
OrElse(x, fallback) == IF FalsyStr(x) THEN fallback ELSE x

\* ------------------------------------------------------------------------
\* POST / : create a service, with the monthly recurrence expansion
\* ------------------------------------------------------------------------

\* The number of future occurrences a monthly service gets.
OcurrenciasFuturas == 11

\* Mutant of the check: periodicidad is not required.
MissingFieldSinPeriodicidad(body) ==
  \/ FalsyStr(body.nombre)
  \/ body.monto.t = "undefined"
  \/ Falsy(body.vencimiento)

\* !nombre || monto === undefined || !vencimiento || !periodicidad
MissingField(body) ==
  \/ FalsyStr(body.nombre)
  \/ body.monto.t = "undefined"
  \/ Falsy(body.vencimiento)
  \/ FalsyStr(body.periodicidad)

\* Date.prototype.setUTCMonth(month) on instant t: the same day of the month
\* and time of day in that month, the day carrying over when the month is
\* shorter.
setUTCMonth(t, month) ==
  DateUTC(getUTCFullYear(t), month, getUTCDate(t),
          SecondsOfDay(t) \div 3600, (SecondsOfDay(t) % 3600) \div 60,
          SecondsOfDay(t) % 60)

\* The due date of the i-th future occurrence of a service due at baseDate.
FechaNueva(baseDate, i) ==
  LET fechaNuevaLocal == setUTCMonth(baseDate, getUTCMonth(baseDate) + i)
      yyyy == getUTCFullYear(fechaNuevaLocal)
      mm == getUTCMonth(fechaNuevaLocal) + 1
      dd == getUTCDate(fechaNuevaLocal)
  IN  DateUTC(yyyy, mm - 1, dd, 12, 0, 0)

\* The row prisma.servicio.create inserts for the request.
NuevoServicio(u, body, vencimientoUtc, id) ==
  [id |-> id,
   nombre |-> body.nombre,
   monto |-> String(body.monto),
   vencimiento |-> vencimientoUtc,
   periodicidad |-> body.periodicidad,
   estado |-> OrElse(body.estado, "por_pagar"),
   userId |-> u,
   linkPago |-> OrElse(body.linkPago, NULL),
   categoria |-> OrElse(body.categoria, "Otros")]

\* Mutants of the expansion: periodicidad compared without regard to case,
\* and the occurrences given the estado of the original.
ServiciosFuturosSinCaja(u, body, baseDate, id) ==
  IF body.periodicidad \in {"mensual", "Mensual"}
    THEN {[NuevoServicio(u, body, FechaNueva(baseDate, i), id + i)
             EXCEPT !.estado = "por_pagar"] : i \in 1..OcurrenciasFuturas}
  ELSE {}
ServiciosFuturosConEstado(u, body, baseDate, id) ==
  IF body.periodicidad = "mensual"
    THEN {NuevoServicio(u, body, FechaNueva(baseDate, i), id + i)
            : i \in 1..OcurrenciasFuturas}
  ELSE {}

\* The rows prisma.servicio.createMany inserts after the service `id`.
ServiciosFuturos(u, body, baseDate, id) ==
  IF body.periodicidad = "mensual"
    THEN {[id |-> id + i,
           nombre |-> body.nombre,
           monto |-> String(body.monto),
           vencimiento |-> FechaNueva(baseDate, i),
           periodicidad |-> body.periodicidad,
           estado |-> "por_pagar",
           userId |-> u,
           linkPago |-> OrElse(body.linkPago, NULL),
           categoria |-> OrElse(body.categoria, "Otros")]
          : i \in 1..OcurrenciasFuturas}
  ELSE {}

\* The whole handler.  An Invalid Date makes prisma.servicio.create throw,
\* which the catch turns into a 500 before anything is written.
Post(u, body) ==
  /\ Ready
  /\ IF MissingField(body)
       THEN /\ Respond("POST", u, 0, body, 400, None,
                       [error |-> "nombre, monto, vencimiento and periodicidad are required"])
            /\ UNCHANGED <<store, counters, clock, del>>
     ELSE LET vencimientoUtc == toUtcNoon(body.vencimiento).v
              servicio == NuevoServicio(u, body, vencimientoUtc, nextServicioId)
              futuros == ServiciosFuturos(u, body, vencimientoUtc, nextServicioId)
          IN  IF vencimientoUtc = NaN
                THEN /\ Respond("POST", u, 0, body, 500, None, ServerError)
                     /\ UNCHANGED <<store, counters, clock, del>>
              ELSE /\ nextServicioId <= MaxServicioId
                   /\ servicios' = servicios \cup {servicio} \cup futuros
                   /\ nextServicioId' = nextServicioId + 1 + Cardinality(futuros)
                   /\ Respond("POST", u, servicio.id, body, 201,
                              [None EXCEPT !.created = {servicio} \cup futuros],
                              servicio)
                   /\ UNCHANGED <<transacciones, pagos, nextTransaccionId,
                                  nextPagoId, clock, del>>

\* ------------------------------------------------------------------------
\* PUT /:id : field-level partial update
\* ------------------------------------------------------------------------

\* Mutant of the update: an estado left out falls back to the default of
\* POST.
PutDataEstadoPorDefecto(service, body, vencimiento) ==
  [id |-> service.id,
   nombre |-> IF body.nombre # UNDEF THEN body.nombre ELSE service.nombre,
   monto |-> IF body.monto.t # "undefined" THEN String(body.monto)
             ELSE service.monto,
   vencimiento |-> vencimiento,
   periodicidad |-> IF body.periodicidad # UNDEF THEN body.periodicidad
                    ELSE service.periodicidad,
   estado |-> OrElse(body.estado, "por_pagar"),
   userId |-> service.userId,
   linkPago |-> IF body.linkPago # UNDEF THEN body.linkPago
                ELSE service.linkPago,
   categoria |-> IF body.categoria # UNDEF THEN body.categoria
                 ELSE service.categoria]

\* The `data` object applied to the row: a field of the body that is not
\* undefined replaces the row's.
PutData(service, body, vencimiento) ==
  [id |-> service.id,
   nombre |-> IF body.nombre # UNDEF THEN body.nombre ELSE service.nombre,
   monto |-> IF body.monto.t # "undefined" THEN String(body.monto)
             ELSE service.monto,
   vencimiento |-> vencimiento,
   periodicidad |-> IF body.periodicidad # UNDEF THEN body.periodicidad
                    ELSE service.periodicidad,
   estado |-> IF body.estado # UNDEF THEN body.estado ELSE service.estado,
   userId |-> service.userId,
   linkPago |-> IF body.linkPago # UNDEF THEN body.linkPago
                ELSE service.linkPago,
   categoria |-> IF body.categoria # UNDEF THEN body.categoria
                 ELSE service.categoria]

\* The whole handler.  vencimiento is a required column: a null or an
\* Invalid Date makes prisma.servicio.update throw (500, nothing written).
Put(u, id, body) ==
  /\ Ready
  /\ IF NotFound(u, id)
       THEN /\ Respond("PUT", u, id, body, 404, None, NotFoundError)
            /\ UNCHANGED <<store, counters, clock, del>>
     ELSE LET service == CHOOSE s \in findUnique(id) : TRUE
              given == body.vencimiento.t # "undefined"
              norm == toUtcNoon(body.vencimiento)
          IN  IF given /\ (norm = Null \/ norm.v = NaN)
                THEN /\ Respond("PUT", u, id, body, 500, None, ServerError)
                     /\ UNCHANGED <<store, counters, clock, del>>
              ELSE LET updated == PutData(service, body,
                                          IF given THEN norm.v
                                          ELSE service.vencimiento)
                   IN  /\ servicios' = (servicios \ {service}) \cup {updated}
                       /\ Respond("PUT", u, id, body, 200,
                                  [None EXCEPT !.updated = {id}], updated)
                       /\ UNCHANGED <<transacciones, pagos, counters, clock, del>>

\* ------------------------------------------------------------------------
\* PATCH /:id/estado : status change and its expense transaction
\* ------------------------------------------------------------------------

\* servicioId: null
SinServicio == 0

\* `Pago de servicio: ${service.nombre}`
Desc(service) == "Pago de servicio: " \o service.nombre

\* The where clause shared by findFirst and deleteMany: the requester's
\* expense rows linked to the service, or unlinked with its description.
GastosDelServicio(u, service, rows) ==
  {t \in rows :
     /\ t.userId = u
     /\ t.tipo = "gasto"
     /\ \/ t.servicioId = service.id
        \/ t.servicioId = SinServicio /\ t.descripcion = Desc(service)}

\* Mutants of the lookup: no lookup at all (every payment creates a row),
\* and a lookup by servicioId only.
ExistingNinguno(u, service, rows) == {}
ExistingSoloVinculado(u, service, rows) ==
  {t \in rows : t.userId = u /\ t.tipo = "gasto" /\ t.servicioId = service.id}

\* prisma.transaccion.findFirst(...): the rows among which it returns one
Existing(u, service, rows) == GastosDelServicio(u, service, rows)

\* Mutant of the removal: by description only.
BorradasSoloDescripcion(u, service, rows) ==
  {t \in rows : /\ t.userId = u
                /\ t.tipo = "gasto"
                /\ t.servicioId = SinServicio
                /\ t.descripcion = Desc(service)}

\* Mutant of the removal: the owner is left out of the where clause.
BorradasSinDuenho(u, service, rows) ==
  {t \in rows :
     /\ t.tipo = "gasto"
     /\ \/ t.servicioId = service.id
        \/ t.servicioId = SinServicio /\ t.descripcion = Desc(service)}

\* The rows prisma.transaccion.deleteMany(...) removes on a revert
Borradas(u, service, rows) == GastosDelServicio(u, service, rows)

\* The row prisma.transaccion.create inserts when the service is paid.
NuevoGasto(u, service, id, fecha) ==
  [id |-> id,
   tipo |-> "gasto",
   monto |-> service.monto,
   descripcion |-> Desc(service),
   categoria |-> OrElse(service.categoria, "Otros"),
   fecha |-> fecha,
   periodicidad |-> IF service.periodicidad = "mensual" THEN "mensual"
                    ELSE "unico",
   esRecurrente |-> FALSE,
   userId |-> u,
   servicioId |-> service.id]

\* The whole handler.
PatchEstado(u, id, estado) ==
  /\ Ready
  /\ IF FalsyStr(estado)
       THEN /\ Respond("PATCH", u, id, [estado |-> estado], 400, None,
                       [error |-> "estado is required"])
            /\ UNCHANGED <<store, counters, clock, del>>
     ELSE IF NotFound(u, id)
       THEN /\ Respond("PATCH", u, id, [estado |-> estado], 404, None,
                       NotFoundError)
            /\ UNCHANGED <<store, counters, clock, del>>
     ELSE LET service == CHOOSE s \in findUnique(id) : TRUE
              updated == [service EXCEPT !.estado = estado]
              crea == estado = "pagado"
                        /\ Existing(u, service, transacciones) = {}
              nuevas == IF crea
                          THEN {NuevoGasto(u, service, nextTransaccionId, Now)}
                        ELSE {}
              borradas == IF estado = "por_pagar"
                            THEN Borradas(u, service, transacciones)
                          ELSE {}
          IN  /\ crea => nextTransaccionId <= MaxTransacciones
              /\ servicios' = (servicios \ {service}) \cup {updated}
              /\ transacciones' = (transacciones \cup nuevas) \ borradas
              /\ nextTransaccionId' = nextTransaccionId + Cardinality(nuevas)
              /\ Respond("PATCH", u, id, [estado |-> estado], 200,
                         [created |-> nuevas, deleted |-> borradas,
                          updated |-> {id}],
                         updated)
              /\ UNCHANGED <<pagos, nextServicioId, nextPagoId, clock, del>>

\* ------------------------------------------------------------------------
\* GET / : listing with auto-expiry
\* ------------------------------------------------------------------------

\* new Date(y, monthIndex, day, h, mi, s): local time, tz seconds east of UTC
DateLocal(y, monthIndex, day, h, mi, s, tz) ==
  IF DateUTC(y, monthIndex, day, h, mi, s) = NaN THEN NaN
  ELSE DateUTC(y, monthIndex, day, h, mi, s) - tz

\* mes && (anio || año): query parameters are strings, absent ones empty
HasWindow(query) == query.mes # <<>> /\ (query.anio # <<>> \/ query.anho # <<>>)

\* where.vencimiento: [gte, lte], present only with a month and a year
Window(query, tz) ==
  LET y == parseInt(IF query.anio # <<>> THEN query.anio ELSE query.anho)
      m == parseInt(query.mes)
  IN  [gte |-> DateLocal(y, Minus(m, 1), 1, 0, 0, 0, tz),
       lte |-> DateLocal(y, m, 0, 23, 59, 59, tz)]

\* Mutant of the where clause: the window is left out.
findManySinVentana(u, query, tz, rows) == {s \in rows : s.userId = u}

\* prisma.servicio.findMany({ where }) over the rows given
findMany(u, query, tz, rows) ==
  {s \in rows :
     /\ s.userId = u
     /\ HasWindow(query) =>
          /\ Window(query, tz).gte <= s.vencimiento
          /\ s.vencimiento <= Window(query, tz).lte}

\* Mutant of the test: the comparison the wrong way round.
VencidoAlReves(s, today) ==
  s.estado # "pagado" /\ today < s.vencimiento /\ s.estado # "vencido"

\* The test that pushes an update for row s
Vencido(s, today) ==
  s.estado # "pagado" /\ s.vencimiento < today /\ s.estado # "vencido"

\* The rows after Promise.all(updates)
Expirar(rows, ids) ==
  {IF s.id \in ids THEN [s EXCEPT !.estado = "vencido"] ELSE s : s \in rows}

\* The whole handler.  An Invalid Date in the where clause makes findMany
\* throw (500).
Get(u, query, tz) ==
  /\ Ready
  /\ IF HasWindow(query)
        /\ (Window(query, tz).gte = NaN \/ Window(query, tz).lte = NaN)
       THEN /\ Respond("GET", u, 0, query, 500, None, ServerError)
            /\ UNCHANGED <<store, counters, clock, del>>
     ELSE LET fetched == findMany(u, query, tz, servicios)
              today == Now
              updates == {s.id : s \in {x \in fetched : Vencido(x, today)}}
              after == Expirar(servicios, updates)
          IN  /\ servicios' = after
              /\ Respond("GET", u, 0, query, 200,
                         [None EXCEPT !.updated = updates],
                         IF updates # {} THEN findMany(u, query, tz, after)
                         ELSE fetched)
              /\ UNCHANGED <<transacciones, pagos, counters, clock, del>>

\* ------------------------------------------------------------------------
\* DELETE /:id : payment records first, then the service
\* ------------------------------------------------------------------------

\* prisma.pago.deleteMany({ where: { servicioId: id } })
PagosSin(id, rows) == {p \in rows : p.servicioId # id}

\* prisma.servicio.delete({ where: { id } })
ServiciosSin(id, rows) == {s \in rows : s.id # id}

\* Mutant of the first call: the service goes first.
DeleteCall1Servicio(id, tables) ==
  [tables EXCEPT !.servicios = ServiciosSin(id, tables.servicios)]

\* The two awaited store calls of the handler, in the order it makes them,
\* each on the tables as it finds them.
DeleteCall1(id, tables) == [tables EXCEPT !.pagos = PagosSin(id, tables.pagos)]
DeleteCall2(id, tables) ==
  [tables EXCEPT !.servicios = ServiciosSin(id, tables.servicios)]

Tables == [servicios |-> servicios, pagos |-> pagos]

\* The whole handler, as one step.
Delete(u, id) ==
  /\ Ready
  /\ IF NotFound(u, id)
       THEN /\ Respond("DELETE", u, id, Undefined, 404, None, NotFoundError)
            /\ UNCHANGED <<store, counters, clock, del>>
     ELSE LET after == DeleteCall2(id, DeleteCall1(id, Tables))
          IN  /\ pagos' = after.pagos
              /\ servicios' = after.servicios
              /\ Respond("DELETE", u, id, Undefined, 200,
                         [None EXCEPT !.deleted = pagos \ after.pagos],
                         [ok |-> TRUE])
              /\ UNCHANGED <<transacciones, counters, clock, del>>

\* The same handler, one store call per step: the lookup ...
DeleteFind(u, id) ==
  /\ Ready
  /\ IF NotFound(u, id)
       THEN /\ Respond("DELETE", u, id, Undefined, 404, None, NotFoundError)
            /\ UNCHANGED <<store, counters, clock, del>>
     ELSE /\ del' = [step |-> "found", u |-> u, id |-> id, deleted |-> {}]
          /\ UNCHANGED <<store, counters, clock, last, res, prevPagado>>

\* ... the first awaited call ...
DeleteFirst ==
  /\ del.step = "found"
  /\ pagos' = DeleteCall1(del.id, Tables).pagos
  /\ servicios' = DeleteCall1(del.id, Tables).servicios
  /\ del' = [del EXCEPT !.step = "first",
                        !.deleted = pagos \ pagos']
  /\ UNCHANGED <<transacciones, counters, clock, last, res, prevPagado>>

\* ... and the second, followed by the response.
DeleteSecond ==
  /\ del.step = "first"
  /\ pagos' = DeleteCall2(del.id, Tables).pagos
  /\ servicios' = DeleteCall2(del.id, Tables).servicios
  /\ del' = Idle
  /\ Respond("DELETE", del.u, del.id, Undefined, 200,
             [None EXCEPT !.deleted = del.deleted \cup (pagos \ pagos')],
             [ok |-> TRUE])
  /\ UNCHANGED <<transacciones, counters, clock>>

\* ------------------------------------------------------------------------
\* GET / and PATCH /:id/estado, one awaited store call per step
\* ------------------------------------------------------------------------

\* Steps of a handler in flight leave the other tables' counters, the
\* response of the last request taken as one step, and the page alone.
OtherRuns == UNCHANGED <<pagos, nextServicioId, nextPagoId, clock, last, res,
                         prevPagado, del, page, prevTransacciones>>

Start(i, op, u) ==
  [NoRun EXCEPT !.op = op, !.u = u,
                !.primero = \A j \in Slots : runs[j] = NoRun,
                !.antes = servicios,
                !.antesTransacciones = transacciones]

\* The ids of the rows for which the loop pushes an update
Updates(fetched, today) == {s.id : s \in {x \in fetched : Vencido(x, today)}}

\* GET: the first findMany, `today`, and the loop that builds the updates;
\* without updates the handler responds at once.
GetFindMany(i, u, query, tz) ==
  /\ Ready
  /\ runs[i] = NoRun
  /\ LET r == [Start(i, "GET", u) EXCEPT !.query = query, !.tz = tz]
          fetched == findMany(u, query, tz, servicios)
          today == Now
          updates == Updates(fetched, today)
      IN  runs' = [runs EXCEPT ![i] =
            IF HasWindow(query)
               /\ (Window(query, tz).gte = NaN \/ Window(query, tz).lte = NaN)
              THEN [r EXCEPT !.pc = "done", !.status = 500,
                             !.body = ServerError]
            ELSE IF updates = {}
              THEN [r EXCEPT !.pc = "done", !.status = 200, !.body = fetched,
                             !.today = today]
            ELSE [r EXCEPT !.pc = "updates", !.today = today,
                           !.pending = updates]]
  /\ UNCHANGED <<servicios, transacciones, nextTransaccionId>>
  /\ OtherRuns

\* Mutant of the update: updateMany over every row of the requester.
GetWriteTodas(u, id, rows) ==
  {IF s.userId = u THEN [s EXCEPT !.estado = "vencido"] ELSE s : s \in rows}

\* prisma.servicio.update({ where: { id }, data: { estado: 'vencido' } })
GetWrite(u, id, rows) == Expirar(rows, {id})

\* GET: one of the updates under Promise.all completes; they complete in any
\* order.  No request of the specifications that take GET step by step
\* deletes a service, so the row is there.
GetUpdate(i, id) ==
  /\ runs[i].op = "GET"
  /\ runs[i].pc = "updates"
  /\ id \in runs[i].pending
  /\ \E s \in servicios : s.id = id
  /\ servicios' = GetWrite(runs[i].u, id, servicios)
  /\ runs' = [runs EXCEPT ![i].pending = @ \ {id}]
  /\ UNCHANGED <<transacciones, nextTransaccionId>>
  /\ OtherRuns

\* GET: Promise.all has resolved; the second findMany and the response.
GetRefetch(i) ==
  /\ runs[i].op = "GET"
  /\ runs[i].pc = "updates"
  /\ runs[i].pending = {}
  /\ runs' = [runs EXCEPT ![i].pc = "done", ![i].status = 200,
                          ![i].body = findMany(runs[i].u, runs[i].query,
                                               runs[i].tz, servicios)]
  /\ UNCHANGED <<servicios, transacciones, nextTransaccionId>>
  /\ OtherRuns

\* PATCH: the check of the body, findUnique and the check of the owner.
PatchFindUnique(i, u, id, estado) ==
  /\ Ready
  /\ runs[i] = NoRun
  /\ LET r == [Start(i, "PATCH", u) EXCEPT !.id = id, !.estado = estado]
      IN  runs' = [runs EXCEPT ![i] =
            IF FalsyStr(estado)
              THEN [r EXCEPT !.pc = "done", !.status = 400,
                             !.body = [error |-> "estado is required"]]
            ELSE IF NotFound(u, id)
              THEN [r EXCEPT !.pc = "done", !.status = 404,
                             !.body = NotFoundError]
            ELSE [r EXCEPT !.pc = "update",
                           !.service = CHOOSE s \in findUnique(id) : TRUE]]
  /\ UNCHANGED <<servicios, transacciones, nextTransaccionId>>
  /\ OtherRuns

\* The position after prisma.servicio.update, by the estado requested
AfterUpdate(estado) ==
  IF estado = "pagado" THEN "findFirst"
  ELSE IF estado = "por_pagar" THEN "deleteMany"
  ELSE "done"

\* PATCH: prisma.servicio.update({ where: { id }, data: { estado } }) on the
\* row as it is now; `updated` is the row it returns.
PatchUpdate(i) ==
  /\ runs[i].op = "PATCH"
  /\ runs[i].pc = "update"
  /\ \E row \in findUnique(runs[i].id) :
       LET updated == [row EXCEPT !.estado = runs[i].estado]
       IN  /\ servicios' = (servicios \ {row}) \cup {updated}
           /\ runs' = [runs EXCEPT
                         ![i].pc = AfterUpdate(runs[i].estado),
                         ![i].body = updated,
                         ![i].status = IF AfterUpdate(runs[i].estado) = "done"
                                         THEN 200 ELSE 0]
  /\ UNCHANGED <<transacciones, nextTransaccionId>>
  /\ OtherRuns

\* PATCH, estado pagado: findFirst; with a row found the handler responds.
PatchFindFirst(i) ==
  /\ runs[i].op = "PATCH"
  /\ runs[i].pc = "findFirst"
  /\ runs' = [runs EXCEPT ![i] =
       IF Existing(runs[i].u, runs[i].service, transacciones) = {}
         THEN [@ EXCEPT !.pc = "create"]
       ELSE [@ EXCEPT !.pc = "done", !.status = 200]]
  /\ UNCHANGED <<servicios, transacciones, nextTransaccionId>>
  /\ OtherRuns

\* PATCH, estado pagado: prisma.transaccion.create and the response.
PatchCreate(i) ==
  /\ runs[i].op = "PATCH"
  /\ runs[i].pc = "create"
  /\ nextTransaccionId <= MaxTransacciones
  /\ LET gasto == NuevoGasto(runs[i].u, runs[i].service, nextTransaccionId, Now)
      IN  /\ transacciones' = transacciones \cup {gasto}
          /\ runs' = [runs EXCEPT ![i].pc = "done", ![i].status = 200,
                                  ![i].created = {gasto}]
  /\ nextTransaccionId' = nextTransaccionId + 1
  /\ UNCHANGED servicios
  /\ OtherRuns

\* PATCH, estado por_pagar: prisma.transaccion.deleteMany and the response.
PatchDeleteMany(i) ==
  /\ runs[i].op = "PATCH"
  /\ runs[i].pc = "deleteMany"
  /\ transacciones' =
       transacciones \ Borradas(runs[i].u, runs[i].service, transacciones)
  /\ runs' = [runs EXCEPT ![i].pc = "done", ![i].status = 200]
  /\ UNCHANGED <<servicios, nextTransaccionId>>
  /\ OtherRuns

\* ------------------------------------------------------------------------
\* POST / one awaited store call per step, and store calls that fail
\* ------------------------------------------------------------------------

\* POST: the check of the body, toUtcNoon and prisma.servicio.create; a
\* service that is not monthly is answered at once.
PostCreate(i, u, body) ==
  /\ Ready
  /\ runs[i] = NoRun
  /\ LET r == [Start(i, "POST", u) EXCEPT !.req = body]
          vencimientoUtc == toUtcNoon(body.vencimiento).v
          servicio == NuevoServicio(u, body, vencimientoUtc, nextServicioId)
      IN  IF MissingField(body)
            THEN /\ runs' = [runs EXCEPT ![i] =
                      [r EXCEPT !.pc = "done", !.status = 400,
                                !.body = [error |-> "nombre, monto, vencimiento and periodicidad are required"]]]
                 /\ UNCHANGED <<servicios, nextServicioId>>
          ELSE IF vencimientoUtc = NaN
            THEN /\ runs' = [runs EXCEPT ![i] =
                      [r EXCEPT !.pc = "done", !.status = 500,
                                !.body = ServerError]]
                 /\ UNCHANGED <<servicios, nextServicioId>>
          ELSE /\ nextServicioId <= MaxServicioId
               /\ servicios' = servicios \cup {servicio}
               /\ nextServicioId' = nextServicioId + 1
               /\ runs' = [runs EXCEPT ![i] =
                    IF body.periodicidad = "mensual"
                      THEN [r EXCEPT !.pc = "createMany", !.service = servicio,
                                     !.id = servicio.id, !.body = servicio]
                    ELSE [r EXCEPT !.pc = "done", !.status = 201,
                                   !.service = servicio, !.id = servicio.id,
                                   !.body = servicio]]
  /\ UNCHANGED <<transacciones, pagos, nextTransaccionId, nextPagoId, clock,
                 last, res, prevPagado, del, page, prevTransacciones>>

\* POST, periodicidad mensual: prisma.servicio.createMany and the response.
PostCreateMany(i) ==
  /\ runs[i].op = "POST"
  /\ runs[i].pc = "createMany"
  /\ LET futuros == ServiciosFuturos(runs[i].u, runs[i].req,
                                     runs[i].service.vencimiento,
                                     nextServicioId - 1)
      IN  /\ servicios' = servicios \cup futuros
          /\ nextServicioId' = nextServicioId + Cardinality(futuros)
  /\ runs' = [runs EXCEPT ![i].pc = "done", ![i].status = 201]
  /\ UNCHANGED <<transacciones, pagos, nextTransaccionId, nextPagoId, clock,
                 last, res, prevPagado, del, page, prevTransacciones>>

\* The awaited store call the handler is at throws: the catch block logs
\* the error and responds 500.  Nothing undoes the calls already made.
StoreCallFails(i) ==
  /\ runs[i].op \in {"POST", "PATCH"}
  /\ runs[i].pc \in {"createMany", "update", "findFirst", "create", "deleteMany"}
  /\ runs' = [runs EXCEPT ![i].pc = "done", ![i].status = 500,
                          ![i].body = ServerError]
  /\ UNCHANGED <<servicios, transacciones, nextTransaccionId>>
  /\ OtherRuns

\* ------------------------------------------------------------------------
\* The environment: the payments router and the clock
\* ------------------------------------------------------------------------

\* createPago({ servicioId, ... }): a payment record for a service of the
\* requester; the row references its service by a foreign key.
CreatePago(u, servicioId) ==
  /\ Ready
  /\ ~NotFound(u, servicioId)
  /\ nextPagoId <= MaxPagos
  /\ pagos' = pagos \cup {[id |-> nextPagoId, servicioId |-> servicioId]}
  /\ nextPagoId' = nextPagoId + 1
  /\ UNCHANGED <<servicios, transacciones, nextServicioId, nextTransaccionId,
                 clock, last, res, prevPagado, del>>

\* The response is out; the server is ready for the next request.
Finish ==
  /\ del = Idle
  /\ last # NoRequest
  /\ last' = NoRequest
  /\ res' = Undefined
  /\ prevPagado' = IF /\ last.op = "PATCH" /\ last.status = 200
                      /\ last.body.estado = "pagado"
                   THEN last.id ELSE 0
  /\ UNCHANGED <<store, counters, clock, del>>

\* Time passes between two requests.
Tick ==
  /\ Ready
  /\ clock < MaxClock
  /\ clock' = clock + 1
  /\ UNCHANGED <<store, counters, last, res, prevPagado, del>>

\* ------------------------------------------------------------------------
\* Requests the model sends
\* ------------------------------------------------------------------------

Digits2(n) == <<DigitChars[(n \div 10) + 1], DigitChars[(n % 10) + 1]>>
Digits4(n) == Digits2(n \div 100) \o Digits2(n % 100)

\* 'YYYY-MM-DD'
IsoDate(y, m, d) == Digits4(y) \o <<"-">> \o Digits2(m) \o <<"-">> \o Digits2(d)

\* 'T21:30:00-03:00': a time of day and offset that name the next UTC day
TimeSuffix ==
  <<"T", "2", "1", ":", "3", "0", ":", "0", "0", "-", "0", "3", ":", "0", "0">>

Num(n) == [t |-> "number", n |-> n]
Txt(str) == [t |-> "string", s |-> str]

LuzMensual ==
  [nombre |-> "luz", monto |-> Num(1500),
   vencimiento |-> Str(IsoDate(2025, 1, 31)), periodicidad |-> "mensual",
   estado |-> UNDEF, linkPago |-> UNDEF, categoria |-> UNDEF]

GasUnico ==
  [nombre |-> "gas", monto |-> Txt("800"),
   vencimiento |-> Str(IsoDate(2025, 2, 10) \o TimeSuffix),
   periodicidad |-> "unico", estado |-> "pagado",
   linkPago |-> "https://pagar.example", categoria |-> "Hogar"]

\* A monthly service first due on the last day of 2024.
AguaMensual ==
  [nombre |-> "agua", monto |-> Num(900),
   vencimiento |-> Str(IsoDate(2024, 12, 31)), periodicidad |-> "mensual",
   estado |-> UNDEF, linkPago |-> UNDEF, categoria |-> UNDEF]

\* The same service created as already paid, with a link and a category.
AguaPagada ==
  [AguaMensual EXCEPT !.estado = "pagado",
                      !.linkPago = "https://pagar.example",
                      !.categoria = "Hogar"]

ValidPostBodies == {LuzMensual, GasUnico}

\* One body per required field left out, and one whose date does not parse.
BadPostBodies ==
  {[LuzMensual EXCEPT !.nombre = UNDEF],
   [LuzMensual EXCEPT !.monto = Undefined],
   [LuzMensual EXCEPT !.vencimiento = Undefined],
   [GasUnico EXCEPT !.periodicidad = UNDEF],
   [GasUnico EXCEPT !.vencimiento = Str(<<"m", "a", "r", "z", "o">>)]}

PostBodies == ValidPostBodies \cup BadPostBodies

NoFields ==
  [nombre |-> UNDEF, monto |-> Undefined, vencimiento |-> Undefined,
   periodicidad |-> UNDEF, estado |-> UNDEF, linkPago |-> UNDEF,
   categoria |-> UNDEF]

PutBodies ==
  {[NoFields EXCEPT !.estado = "por_pagar"],
   [NoFields EXCEPT !.categoria = ""]}

Estados == {"por_pagar", "pagado", "vencido", UNDEF}

NoQuery == [mes |-> <<>>, anio |-> <<>>, anho |-> <<>>]
Queries ==
  {NoQuery,
   [mes |-> <<"2">>, anio |-> <<"2", "0", "2", "5">>, anho |-> <<>>],
   [mes |-> <<"x">>, anio |-> <<>>, anho |-> <<"2", "0", "2", "5">>]}

Enero2025 == [mes |-> <<"1">>, anio |-> <<"2", "0", "2", "5">>, anho |-> <<>>]

Diciembre2024 ==
  [mes |-> <<"1", "2">>, anio |-> <<>>, anho |-> <<"2", "0", "2", "4">>]

\* The server's offset from UTC, in seconds: Buenos Aires and UTC.
TzOffsets == {0 - 3 * 3600, 0}

\* The id a request names: the first service's, before it exists, while it
\* does, and after it is deleted.
Ids == {1}

\* A row the earlier revision of PATCH /:id/estado wrote when a service was
\* paid: an expense carrying the description and no servicioId.
LegacyGasto(u, nombre, id) ==
  [id |-> id,
   tipo |-> "gasto",
   monto |-> "1500",
   descripcion |-> "Pago de servicio: " \o nombre,
   categoria |-> "Otros",
   fecha |-> ClockBase - ClockStep,
   periodicidad |-> "mensual",
   esRecurrente |-> FALSE,
   userId |-> u,
   servicioId |-> SinServicio]

\* ------------------------------------------------------------------------
\* The specification: requests handled one after another
\* ------------------------------------------------------------------------

Init ==
  /\ servicios = {}
  /\ transacciones \in {{}, {LegacyGasto("ana", "luz", 1)}}
  /\ pagos = {}
  /\ nextServicioId = 1
  /\ nextTransaccionId = Cardinality(transacciones) + 1
  /\ nextPagoId = 1
  /\ clock = 0
  /\ last = NoRequest
  /\ res = Undefined
  /\ prevPagado = 0
  /\ del = Idle
  /\ runs = [i \in Slots |-> NoRun]
  /\ page = NoPage
  /\ prevTransacciones = {}

Next ==
  \/ \E u \in Users, body \in PostBodies : Post(u, body) /\ Quiet
  \/ \E u \in Users, id \in Ids, body \in PutBodies : Put(u, id, body) /\ Quiet
  \/ \E u \in Users, id \in Ids, estado \in Estados :
       PatchEstado(u, id, estado) /\ Quiet
  \/ \E u \in Users, query \in Queries, tz \in TzOffsets :
       Get(u, query, tz) /\ Quiet
  \/ \E u \in Users, id \in Ids : Delete(u, id) /\ Quiet
  \/ Tick /\ Quiet
  \/ Finish /\ Quiet

Spec == Init /\ [][Next]_vars

\* The same server with DELETE taken one store call at a time, and the
\* payments router creating the records DELETE cascades to.
NextDelete ==
  \/ \E u \in Users, body \in ValidPostBodies : Post(u, body) /\ Quiet
  \/ \E u \in Users, id \in Ids : CreatePago(u, id) /\ Quiet
  \/ \E u \in Users, id \in Ids : DeleteFind(u, id) /\ Quiet
  \/ DeleteFirst /\ Quiet
  \/ DeleteSecond /\ Quiet
  \/ Finish /\ Quiet

SpecDelete == Init /\ [][NextDelete]_vars

\* ------------------------------------------------------------------------
\* Properties of the status change (Spec)
\* ------------------------------------------------------------------------

\* The expense rows linked to service id
Linked(id) == {t \in transacciones : t.tipo = "gasto" /\ t.servicioId = id}

\* The row of service id in the state before the request
Row(id) == CHOOSE s \in servicios : s.id = id

PatchOk(r, estado) ==
  r.op = "PATCH" /\ r.status = 200 /\ r.body.estado = estado

\* The request being answered is the second of two successive successful
\* PATCH estado=pagado on the same service.
SecondPagado == PatchOk(last, "pagado") /\ prevPagado = last.id

PagadoAtMostOne ==
  \A s \in servicios : s.estado = "pagado" => Cardinality(Linked(s.id)) <= 1

\* C1 as claimed: every paid service has at most one linked expense, and two
\* successive PATCH estado=pagado on a service leave exactly one linked
\* expense, the second call creating none.
C1_ExactlyOneLinked ==
  /\ PagadoAtMostOne
  /\ SecondPagado => Cardinality(Linked(last.id)) = 1 /\ last.created = {}

\* C1 as amended: every paid service has at most one linked expense; after two
\* successive PATCH estado=pagado the second call has created none, and the
\* service has exactly one linked expense unless the requester owns an
\* unlinked expense with the service's payment description, in which case it
\* has none.
C1_AtMostOneLinked ==
  /\ PagadoAtMostOne
  /\ SecondPagado =>
       /\ last.created = {}
       /\ \/ Cardinality(Linked(last.id)) = 1
          \/ /\ Linked(last.id) = {}
             /\ \E t \in transacciones :
                  /\ t.userId = last.u
                  /\ t.tipo = "gasto"
                  /\ t.servicioId = SinServicio
                  /\ t.descripcion = "Pago de servicio: " \o res.nombre

C1_Witness == SecondPagado /\ Cardinality(Linked(last.id)) = 1

\* C2: a successful PATCH estado=pagado on S creates an expense exactly when
\* the requester owned no expense linked to S and no unlinked expense
\* described 'Pago de servicio: <S.nombre>'; the one it creates is a gasto of
\* the requester, linked to S, with S's amount and category ('Otros' for none).
C2_CreatesIffNoneExists ==
  [][PatchOk(last', "pagado") =>
       LET S == Row(last'.id)
           owned == {t \in transacciones :
                       /\ t.userId = last'.u
                       /\ t.tipo = "gasto"
                       /\ \/ t.servicioId = S.id
                          \/ /\ t.servicioId = SinServicio
                             /\ t.descripcion = "Pago de servicio: " \o S.nombre}
           new == transacciones' \ transacciones
       IN  /\ new # {} <=> owned = {}
           /\ Cardinality(new) <= 1
           /\ new = last'.created
           /\ \A t \in new :
                /\ t.tipo = "gasto"
                /\ t.userId = last'.u
                /\ t.servicioId = S.id
                /\ t.monto = S.monto
                /\ t.categoria = IF S.categoria \in {"", NULL} THEN "Otros"
                                 ELSE S.categoria
  ]_vars

\* A payment created the expense of a service that had lost its category.
C2_Witness ==
  /\ PatchOk(last, "pagado")
  /\ \E t \in last.created : t.categoria = "Otros" /\ res.categoria = ""

\* C3: after a successful PATCH estado=por_pagar on S the requester owns no
\* expense linked to S.
C3_RevertRemovesLinked ==
  PatchOk(last, "por_pagar") =>
    {t \in Linked(last.id) : t.userId = last.u} = {}

\* A revert removed the linked expense of a service.
C3_Witness ==
  /\ PatchOk(last, "por_pagar")
  /\ \E t \in last.deleted : t.servicioId = last.id

\* C4 as claimed: a PATCH that moves a service from pagado to por_pagar or
\* vencido removes its linked expense.
C4_UnpaidHasNoLinked ==
  [][/\ last'.op = "PATCH" /\ last'.status = 200
     /\ last'.body.estado \in {"por_pagar", "vencido"}
     /\ Row(last'.id).estado = "pagado"
     => \A t \in transacciones' :
          ~(t.tipo = "gasto" /\ t.servicioId = last'.id)
  ]_vars

\* C5: every service a GET returns that was not pagado before the request
\* and was due before the request's `now` is returned as vencido, and is
\* vencido in the store.
C5_OverdueReturnedVencido ==
  [][last'.op = "GET" /\ last'.status = 200 =>
       \A r \in res' :
         \A s \in servicios :
           (s.id = r.id /\ s.estado # "pagado" /\ s.vencimiento < Now)
             => r.estado = "vencido" /\ r \in servicios'
  ]_vars

\* A listing moved an overdue service to vencido and returned it.
C5_Witness ==
  /\ last.op = "GET" /\ last.status = 200 /\ last.updated # {}
  /\ \E r \in res : r.id \in last.updated /\ r.estado = "vencido"

\* The id names no service, or one of another user, before the request.
Unaddressable(u, id) == \A s \in servicios : s.id = id => s.userId # u

\* C8 as claimed: PUT, PATCH estado and DELETE on an id that names no service
\* of the requester respond 404 and change nothing.
C8_NotFound404 ==
  [][/\ last'.op \in {"PUT", "PATCH", "DELETE"}
     /\ Unaddressable(last'.u, last'.id)
     => last'.status = 404 /\ UNCHANGED store
  ]_vars

\* C8 as amended: the same for PUT, DELETE and a PATCH estado whose body gives
\* an estado; a PATCH without one responds 400 before the id is looked up.
C8_NotFound404WithEstado ==
  [][/\ last'.op \in {"PUT", "PATCH", "DELETE"}
     /\ Unaddressable(last'.u, last'.id)
     => /\ UNCHANGED store
        /\ IF last'.op = "PATCH" /\ last'.body.estado \in {UNDEF, NULL, ""}
             THEN last'.status = 400
           ELSE last'.status = 404
  ]_vars

\* A PATCH estado on another user's service was answered 404.
C8_Witness ==
  /\ last.op = "PATCH" /\ last.status = 404
  /\ \E s \in servicios : s.id = last.id /\ s.userId # last.u

\* C9: a POST that lacks nombre, monto, vencimiento or periodicidad responds
\* 400 and creates no service; a PATCH estado that lacks estado responds 400
\* and changes no service and no transaction.
C9_MissingFields400 ==
  [][/\ (/\ last'.op = "POST"
         /\ \/ last'.body.nombre = UNDEF
            \/ last'.body.monto.t = "undefined"
            \/ last'.body.vencimiento.t = "undefined"
            \/ last'.body.periodicidad = UNDEF)
        => last'.status = 400 /\ UNCHANGED <<servicios, nextServicioId>>
     /\ (last'.op = "PATCH" /\ last'.body.estado = UNDEF)
        => last'.status = 400 /\ UNCHANGED <<servicios, transacciones>>
  ]_vars

\* A POST without periodicidad was answered 400.
C9_Witness ==
  last.op = "POST" /\ last.status = 400 /\ last.body.periodicidad = UNDEF

\* C19: a request of user U leaves every service and transaction of the
\* other users as it was, returns none of them, and creates only records
\* owned by U.
C19_OwnerIsolation ==
  [][(last' # last /\ last'.op # "none") =>
       LET U == last'.u
       IN  /\ {s \in servicios' : s.userId # U} = {s \in servicios : s.userId # U}
           /\ {t \in transacciones' : t.userId # U}
                = {t \in transacciones : t.userId # U}
           /\ \A x \in (servicios' \ servicios) \cup (transacciones' \ transacciones) :
                x.userId = U
           /\ (last'.op = "GET" /\ last'.status = 200) =>
                \A r \in res' : r.userId = U
           /\ (last'.op \in {"POST", "PUT", "PATCH"}
               /\ last'.status \in {200, 201}) => res'.userId = U
  ]_vars

\* A user reverted a service of theirs while another user owned an unlinked
\* expense with that service's payment description, which is still there.
C19_Witness ==
  /\ PatchOk(last, "por_pagar")
  /\ \E t \in transacciones :
       /\ t.userId # last.u
       /\ t.servicioId = SinServicio
       /\ t.descripcion = "Pago de servicio: " \o res.nombre

\* ------------------------------------------------------------------------
\* Due dates (SpecFechas): POST and PUT over a range of dates
\* ------------------------------------------------------------------------

FechaYears == {2024, 2025}
FechaMonths == {1, 2, 3, 12}
FechaDays == {1, 28, 29, 30, 31}

IsLeap(y) == (y % 4 = 0 /\ y % 100 # 0) \/ y % 400 = 0
DaysInMonth(y, m) ==
  IF m = 2 THEN (IF IsLeap(y) THEN 29 ELSE 28)
  ELSE IF m \in {4, 6, 9, 11} THEN 30 ELSE 31

\* The calendar dates the requests name, as [y, m, d]
Fechas ==
  {f \in [y : FechaYears, m : FechaMonths, d : FechaDays] :
     f.d <= DaysInMonth(f.y, f.m)}

\* 'T12:00:00.000Z', as Date.prototype.toISOString ends a UTC-noon instant
NoonSuffix ==
  <<"T", "1", "2", ":", "0", "0", ":", "0", "0", ".", "0", "0", "0", "Z">>

\* The date strings the requests carry: every date as 'YYYY-MM-DD', some with
\* a time and an offset after it, a month without a day, a day past the end
\* of its month, and a word.
FechaStrings ==
  {Str(IsoDate(f.y, f.m, f.d)) : f \in Fechas}
    \cup {Str(IsoDate(f.y, f.m, f.d) \o TimeSuffix) : f \in {g \in Fechas : g.d = 31}}
    \cup {Str(Digits4(2025) \o <<"-">> \o Digits2(2)),
          Str(IsoDate(2025, 2, 30)),
          Str(<<"m", "a", "r", "z", "o">>)}

FechaPostBodies ==
  {[LuzMensual EXCEPT !.vencimiento = v] : v \in FechaStrings}
    \cup {[GasUnico EXCEPT !.vencimiento = Str(IsoDate(2024, 2, 29) \o TimeSuffix)]}

FechaPutBodies ==
  {[NoFields EXCEPT !.vencimiento = v] :
     v \in {Str(IsoDate(2024, 2, 29)),
            Str(IsoDate(2025, 12, 31) \o TimeSuffix),
            Str(IsoDate(2025, 3, 1) \o NoonSuffix),
            Str(IsoDate(2025, 2, 30)),
            Str(<<"m", "a", "r", "z", "o">>),
            Str(<<>>),
            Null,
            DateObj(DateUTC(2025, 0, 31, 23, 59, 59)),
            DateObj(DateUTC(2024, 11, 31, 12, 0, 0))}}

NextFechas ==
  \/ \E body \in FechaPostBodies : Post("ana", body) /\ Quiet
  \/ \E id \in Ids, body \in FechaPutBodies : Put("ana", id, body) /\ Quiet
  \/ Finish /\ Quiet

SpecFechas == Init /\ [][NextFechas]_vars

\* The calendar date a date string names in its first ten characters, if any
Named(v) ==
  {f \in [y : FechaYears, m : 1..12, d : 1..31] :
     /\ f.d <= DaysInMonth(f.y, f.m)
     /\ v.t = "string"
     /\ slice0(v.s, 10) = IsoDate(f.y, f.m, f.d)}

\* months since year 0 of the month an instant falls in
MonthIndex(t) == getUTCFullYear(t) * 12 + getUTCMonth(t)

\* C6 as claimed: a successful monthly POST for a valid date creates 12
\* services, and each of the 12 consecutive months starting with the date's
\* holds exactly one of them.
C6_OnePerMonth ==
  (/\ last.op = "POST" /\ last.status = 201
   /\ last.body.periodicidad = "mensual"
   /\ Named(last.body.vencimiento) # {})
  => /\ Cardinality(last.created) = 12
     /\ \A i \in 0..11 :
          Cardinality({s \in last.created :
                         MonthIndex(s.vencimiento)
                           = MonthIndex(res.vencimiento) + i}) = 1

C10_PagosFirst ==
  /\ \A p \in pagos : \E s \in servicios : s.id = p.servicioId
  /\ del.step = "first" =>
       /\ \E s \in servicios : s.id = del.id
       /\ \A p \in pagos : p.servicioId # del.id
  /\ (last.op = "DELETE" /\ last.status = 200) =>
       /\ \A s \in servicios : s.id # last.id
       /\ \A p \in pagos : p.servicioId # last.id

\* A DELETE removed a service together with a payment record of it.
C10_Witness ==
  /\ last.op = "DELETE" /\ last.status = 200
  /\ \E p \in last.deleted : p.servicioId = last.id

\* ------------------------------------------------------------------------
\* Concurrent requests (SpecConcurrente): two handlers in flight
\* ------------------------------------------------------------------------

\* No handler is in flight and none has run.
Quiescent == \A i \in Slots : runs[i] = NoRun

\* One user creates a monthly service; then, as time passes, two of that
\* user's requests, each a listing or a status change of the first service,
\* run against the store one store call at a time.
NextConcurrente ==
  \/ Quiescent /\ Post("ana", AguaMensual) /\ Quiet
  \/ Finish /\ Quiet
  \/ Tick /\ Quiet
  \/ \E i \in Slots, query \in {NoQuery, Enero2025}, tz \in TzOffsets :
       GetFindMany(i, "ana", query, tz)
  \/ \E i \in Slots : \E id \in runs[i].pending : GetUpdate(i, id)
  \/ \E i \in Slots : GetRefetch(i)
  \/ \E i \in Slots, id \in Ids, estado \in {"pagado", "por_pagar"} :
       PatchFindUnique(i, "ana", id, estado)
  \/ \E i \in Slots : PatchUpdate(i)
  \/ \E i \in Slots : PatchFindFirst(i)
  \/ \E i \in Slots : PatchCreate(i)
  \/ \E i \in Slots : PatchDeleteMany(i)

SpecConcurrente == Init /\ [][NextConcurrente]_vars

\* Both handlers were listings, and both have responded.
TwoGets ==
  \A i \in Slots :
    runs[i].op = "GET" /\ runs[i].pc = "done" /\ runs[i].status = 200

\* The services before the first of the two requests read them
Antes == runs[CHOOSE i \in Slots : runs[i].primero].antes

\* The services after the listing r, run alone on the services S
GetAfter(S, r) ==
  Expirar(S, Updates(findMany(r.u, r.query, r.tz, S), r.today))

\* C11: after two concurrent listings of one owner, their updates applied in
\* any order and interleaved with each other's reads, the services are those
\* that running the two listings one after the other, in either order,
\* leaves.
C11_RaceBenign ==
  TwoGets =>
    /\ servicios = GetAfter(GetAfter(Antes, runs["a"]), runs["b"])
    /\ servicios = GetAfter(GetAfter(Antes, runs["b"]), runs["a"])

\* Two listings with different windows read the same services before either
\* wrote, one of them pushed two updates, the other at least one.
C11_Witness ==
  /\ TwoGets
  /\ runs["a"].antes = runs["b"].antes
  /\ runs["a"].query # runs["b"].query
  /\ Cardinality(Updates(findMany("ana", runs["a"].query, runs["a"].tz,
                                  runs["a"].antes), runs["a"].today)) >= 2
  /\ Updates(findMany("ana", runs["b"].query, runs["b"].tz,
                      runs["b"].antes), runs["b"].today) # {}

\* Handler i was a PATCH with that estado and has responded 200.
PatchDone(i, estado) ==
  /\ runs[i].op = "PATCH" /\ runs[i].estado = estado
  /\ runs[i].pc = "done" /\ runs[i].status = 200

GetDone(i) == runs[i].op = "GET" /\ runs[i].pc = "done"

\* C17 as claimed: once a PATCH estado=pagado of S and a listing have both
\* responded, S is pagado; and no service is vencido while the expense a
\* payment created for it is there.
C17_PagadoSurvives ==
  /\ \A i \in Slots, j \in Slots :
       (PatchDone(i, "pagado") /\ GetDone(j)) =>
         \A s \in servicios : s.id = runs[i].id => s.estado = "pagado"
  /\ \A i \in Slots : \A t \in runs[i].created \cap transacciones :
       \A s \in servicios : s.id = t.servicioId => s.estado # "vencido"

\* C18 as claimed: once two PATCH estado=pagado of one service have both
\* responded, the service has at most one linked expense.
C18_ConcurrentAtMostOne ==
  (/\ PatchDone("a", "pagado") /\ PatchDone("b", "pagado")
   /\ runs["a"].id = runs["b"].id)
  => Cardinality(Linked(runs["a"].id)) <= 1

\* ------------------------------------------------------------------------
\* Listing (SpecListado): GET / over month windows
\* ------------------------------------------------------------------------

\* A user creates a monthly service first due on 2024-12-31; the first and
\* the third occurrence change status; listings ask for all services, for
\* December 2024, for January 2025 and for a month that does not parse.
NextListado ==
  \/ \E u \in Users : Post(u, AguaMensual) /\ Quiet
  \/ \E u \in Users, id \in {1, 3}, estado \in {"pagado", "vencido"} :
       PatchEstado(u, id, estado) /\ Quiet
  \/ \E u \in Users, query \in Queries \cup {Enero2025, Diciembre2024},
        tz \in TzOffsets :
       Get(u, query, tz) /\ Quiet
  \/ Tick /\ Quiet
  \/ Finish /\ Quiet

SpecListado == Init /\ [][NextListado]_vars

\* The due date lies in the month and year the query names.  Due dates are
\* at noon UTC, the same calendar day in UTC and in the server's zone.
EnVentana(query, s) ==
  (query.mes # <<>> /\ (query.anio # <<>> \/ query.anho # <<>>)) =>
    /\ getUTCMonth(s.vencimiento) + 1 = parseInt(query.mes)
    /\ getUTCFullYear(s.vencimiento)
         = parseInt(IF query.anio # <<>> THEN query.anio ELSE query.anho)

\* C12: a GET creates and deletes no service, transaction or payment
\* record; a service changes in its estado only, and only to vencido; a
\* service that changes belongs to the requester, lies in the window asked
\* for, was not pagado and was due before now; a service that was vencido
\* stays vencido.
C12_GetFrame ==
  [][last'.op = "GET" =>
       /\ transacciones' = transacciones
       /\ pagos' = pagos
       /\ {s.id : s \in servicios'} = {s.id : s \in servicios}
       /\ Cardinality(servicios') = Cardinality(servicios)
       /\ \A s \in servicios : \A t \in servicios' :
            t.id = s.id =>
              /\ [t EXCEPT !.estado = s.estado] = s
              /\ s.estado = "vencido" => t.estado = "vencido"
              /\ t.estado # s.estado =>
                   /\ t.estado = "vencido"
                   /\ s.userId = last'.u
                   /\ EnVentana(last'.body, s)
                   /\ s.estado # "pagado"
                   /\ s.vencimiento < Now
  ]_vars

\* A listing for January 2025 moved the January occurrence to vencido and
\* left alone the December one, overdue and por_pagar, and the March one,
\* vencido and not yet due.
C12_Witness ==
  /\ last.op = "GET" /\ last.status = 200 /\ last.body = Enero2025
  /\ last.updated = {2}
  /\ \E s \in servicios :
       s.id = 1 /\ s.estado = "por_pagar" /\ s.vencimiento < Now
  /\ \E s \in servicios :
       s.id = 3 /\ s.estado = "vencido" /\ Now < s.vencimiento

\* ------------------------------------------------------------------------
\* Fields (SpecCampos): what POST / and PUT /:id write
\* ------------------------------------------------------------------------

\* Monthly services, with and without the optional fields, a service paid
\* once, and one whose periodicidad is spelt 'Mensual'.
CamposPostBodies ==
  {AguaMensual, AguaPagada, GasUnico, [GasUnico EXCEPT !.periodicidad = "Mensual"]}

\* One body per field or pair of fields a PUT can carry.
CamposPutBodies ==
  {[NoFields EXCEPT !.estado = "pagado"],
   [NoFields EXCEPT !.estado = "por_pagar"],
   [NoFields EXCEPT !.nombre = "cable", !.monto = Num(2000)],
   [NoFields EXCEPT !.periodicidad = "unico", !.linkPago = NULL],
   [NoFields EXCEPT !.categoria = "Ocio",
                    !.vencimiento = Str(IsoDate(2025, 3, 1) \o TimeSuffix)]}

NextCampos ==
  \/ \E u \in Users, body \in CamposPostBodies : Post(u, body) /\ Quiet
  \/ \E u \in Users, id \in Ids, body \in CamposPutBodies :
       Put(u, id, body) /\ Quiet
  \/ \E u \in Users, id \in Ids : PatchEstado(u, id, "pagado") /\ Quiet
  \/ Finish /\ Quiet

SpecCampos == Init /\ [][NextCampos]_vars

\* C13: a successful POST whose periodicidad is not 'mensual' adds one
\* service, the one in the response, and changes no other record.
C13_OneService ==
  [][(/\ last'.op = "POST" /\ last'.status = 201
      /\ last'.body.periodicidad # "mensual")
     => /\ res' \notin servicios
        /\ servicios' = servicios \cup {res'}
        /\ transacciones' = transacciones
        /\ pagos' = pagos
  ]_vars

\* A POST with periodicidad 'Mensual' created one service.
C13_Witness ==
  /\ last.op = "POST" /\ last.status = 201
  /\ last.body.periodicidad = "Mensual"
  /\ Cardinality(last.created) = 1
  /\ Cardinality(servicios) = 1

\* C14: a successful monthly POST adds, besides the service in the
\* response, 11 services that are por_pagar and have its nombre, monto,
\* periodicidad, owner, linkPago and categoria; it creates no transaction.
C14_Occurrences ==
  [][(/\ last'.op = "POST" /\ last'.status = 201
      /\ last'.body.periodicidad = "mensual")
     => LET futuros == (servicios' \ servicios) \ {res'}
        IN  /\ res' \in servicios'
            /\ Cardinality(futuros) = 11
            /\ \A f \in futuros :
                 /\ f.estado = "por_pagar"
                 /\ f.nombre = res'.nombre
                 /\ f.monto = res'.monto
                 /\ f.periodicidad = res'.periodicidad
                 /\ f.userId = res'.userId
                 /\ f.userId = last'.u
                 /\ f.linkPago = res'.linkPago
                 /\ f.categoria = res'.categoria
            /\ transacciones' = transacciones
  ]_vars

\* A monthly service was created as pagado, with a link and a category.
C14_Witness ==
  /\ last.op = "POST" /\ last.status = 201
  /\ last.body.periodicidad = "mensual"
  /\ res.estado = "pagado" /\ res.linkPago # NULL /\ res.categoria = "Hogar"
  /\ Cardinality(servicios) = 12

\* C15: a successful PUT replaces the service addressed by a row that
\* differs from it in the fields of the body only, each omitted field
\* keeping its value; no other service and no transaction changes.
C15_PutFrame ==
  [][(last'.op = "PUT" /\ last'.status = 200)
     => LET s == Row(last'.id)
            t == res'
            body == last'.body
        IN  /\ servicios' = (servicios \ {s}) \cup {t}
            /\ transacciones' = transacciones
            /\ pagos' = pagos
            /\ t.id = s.id /\ t.userId = s.userId
            /\ t.nombre = IF body.nombre = UNDEF THEN s.nombre ELSE body.nombre
            /\ body.monto.t = "undefined" => t.monto = s.monto
            /\ body.monto.t = "number" => t.monto = ToString(body.monto.n)
            /\ body.vencimiento.t = "undefined" => t.vencimiento = s.vencimiento
            /\ t.periodicidad = IF body.periodicidad = UNDEF THEN s.periodicidad
                                ELSE body.periodicidad
            /\ t.estado = IF body.estado = UNDEF THEN s.estado ELSE body.estado
            /\ t.linkPago = IF body.linkPago = UNDEF THEN s.linkPago
                            ELSE body.linkPago
            /\ t.categoria = IF body.categoria = UNDEF THEN s.categoria
                             ELSE body.categoria
  ]_vars

\* A PUT that gave only a name and an amount left a paid service pagado,
\* with its linked expense.
C15_Witness ==
  /\ last.op = "PUT" /\ last.status = 200
  /\ last.body.estado = UNDEF /\ last.body.nombre = "cable"
  /\ res.estado = "pagado" /\ res.nombre = "cable" /\ res.monto = "2000"
  /\ Linked(last.id) # {}

\* ------------------------------------------------------------------------
\* The kanban page (SpecPagina): loadServicios and onPayClick
\* ------------------------------------------------------------------------

\* The user of the page
PageUser == "ana"

\* The promise of an API call resolves on a 2xx response and rejects on any
\* other.
Resolves(status) == status \in 200..299

\* loadServicios: the listing for the month selected, then
\* setServicios(data); a rejection leaves the list (setError).
LoadServicios(query, tz) ==
  /\ Get(PageUser, query, tz)
  /\ page' = [page EXCEPT !.lista = IF Resolves(last'.status) THEN res' ELSE @]
  /\ UNCHANGED <<runs, prevTransacciones>>

\* Mutant of the order of the calls: changeEstado first, createPago second.
NextCallAlReves(call) ==
  IF call = "click" THEN "changeEstado"
  ELSE IF call = "changeEstado" THEN "createPago"
  ELSE "setServicios"

\* The call onPayClick makes once `call` has resolved
NextCall(call) ==
  IF call = "click" THEN "createPago"
  ELSE IF call = "createPago" THEN "changeEstado"
  ELSE "setServicios"

\* onPayClick(s), up to its first await, for a service of the list
onPayClick(s) ==
  /\ page.pc = "idle"
  /\ s \in page.lista
  /\ page' = [page EXCEPT !.pc = NextCall("click"), !.s = s,
                          !.updated = Undefined, !.pago = 0]
  /\ UNCHANGED <<store, counters, clock, last, res, prevPagado, del, runs,
                 prevTransacciones>>

\* await createPago(...) resolves: the payments router created the record.
PayCreatePago ==
  /\ page.pc = "createPago"
  /\ CreatePago(PageUser, page.s.id)
  /\ page' = [page EXCEPT !.pc = NextCall("createPago"), !.pago = nextPagoId]
  /\ UNCHANGED <<runs, prevTransacciones>>

\* await changeEstado(s.id, 'pagado'): the server handles the PATCH; the
\* promise resolves with the updated service or rejects into the catch.
PayChangeEstado ==
  /\ page.pc = "changeEstado"
  /\ PatchEstado(PageUser, page.s.id, "pagado")
  /\ page' = IF Resolves(last'.status)
               THEN [page EXCEPT !.pc = NextCall("changeEstado"),
                                 !.updated = res']
             ELSE [page EXCEPT !.pc = "idle"]
  /\ UNCHANGED <<runs, prevTransacciones>>

\* Either call rejects without reaching the server (or createPago is
\* refused by it): the catch logs the error.
PayCatch ==
  /\ page.pc \in {"createPago", "changeEstado"}
  /\ page' = [page EXCEPT !.pc = "idle"]
  /\ UNCHANGED <<store, counters, clock, last, res, prevPagado, del, runs,
                 prevTransacciones>>

\* prev.map(x => x.id === s.id ? updated : x)
MapUpdated(prev, s, updated) ==
  {IF x.id = s.id THEN updated ELSE x : x \in prev}

\* setServicios(prev => ...) with the service the PATCH returned
PaySetServicios ==
  /\ page.pc = "setServicios"
  /\ page' = [page EXCEPT !.pc = "idle",
                          !.lista = MapUpdated(@, page.s, page.updated)]
  /\ UNCHANGED <<store, counters, clock, last, res, prevPagado, del, runs,
                 prevTransacciones>>

\* The user creates a monthly service and deletes its first occurrence (from
\* another tab); the page loads a month and pays the service it shows.
NextPagina ==
  \/ Post(PageUser, AguaMensual) /\ Quiet
  \/ \E id \in Ids : Delete(PageUser, id) /\ Quiet
  \/ \E query \in {Diciembre2024, Enero2025} :
       LoadServicios(query, 0 - 3 * 3600)
  \/ \E s \in page.lista : onPayClick(s)
  \/ PayCreatePago
  \/ PayChangeEstado
  \/ PayCatch
  \/ PaySetServicios
  \/ Finish /\ Quiet

SpecPagina == Init /\ [][NextPagina]_vars

\* C16: a status change is requested only by a pay action whose createPago
\* has resolved, with the record it created; the list changes in a step of
\* the pay action only once changeEstado has resolved, by replacing the
\* service paid with the one returned; a pay action that ends in the catch
\* leaves the list as it was.
C16_PayOrder ==
  [][/\ (last'.op = "PATCH" /\ last' # last) =>
          /\ page.pc = "changeEstado"
          /\ page.pago # 0
          /\ page.pago < nextPagoId
          /\ last'.id = page.s.id /\ last'.body.estado = "pagado"
     /\ (pagos' # pagos /\ Cardinality(pagos') > Cardinality(pagos)) =>
          /\ page.pc = "createPago"
          /\ last' = last
     /\ (page'.pc # page.pc /\ page'.lista # page.lista) =>
          /\ page.pc = "setServicios"
          /\ page.updated.estado = "pagado"
          /\ page.updated.id = page.s.id
          /\ page'.lista = {IF x.id = page.s.id THEN page.updated ELSE x :
                              x \in page.lista}
     /\ (page'.pc = "setServicios" /\ page.pc # "setServicios") =>
          /\ page.pc = "changeEstado"
          /\ last'.op = "PATCH" /\ last'.status = 200
          /\ page'.updated = res'
          /\ page'.lista = page.lista
     /\ (page.pc \in {"createPago", "changeEstado"} /\ page'.pc = "idle") =>
          page'.lista = page.lista
  ]_vars

\* The pay action replaced the service shown as por_pagar or vencido by the
\* paid one.
C16_Witness ==
  /\ page.pc = "idle"
  /\ page.updated # Undefined
  /\ page.updated \in page.lista
  /\ page.s \notin page.lista
  /\ page.pago # 0

\* ------------------------------------------------------------------------
\* Pay and revert (SpecIdaVuelta): the transactions around two requests
\* ------------------------------------------------------------------------

\* The response is out, and the transactions the request found are kept:
\* those there now, with the ones it deleted and without the ones it created.
FinishRecording ==
  /\ Finish
  /\ prevTransacciones' = (transacciones \cup last.deleted) \ last.created
  /\ UNCHANGED <<runs, page>>

\* Two users, each with or without an old unlinked expense 'Pago de
\* servicio: luz' of the first, create a service and change its status.
NextIdaVuelta ==
  \/ \E u \in Users, body \in ValidPostBodies : Post(u, body) /\ Quiet
  \/ \E u \in Users, id \in Ids, estado \in {"pagado", "por_pagar", "vencido"} :
       PatchEstado(u, id, estado) /\ Quiet
  \/ FinishRecording

SpecIdaVuelta == Init /\ [][NextIdaVuelta]_vars

\* The request being answered is a successful PATCH estado=por_pagar that
\* follows a successful PATCH estado=pagado of the same service.
PayThenRevert == PatchOk(last, "por_pagar") /\ prevPagado = last.id

\* The transactions of user u among rows
De(u, rows) == {t \in rows : t.userId = u}

NoneInFlight == \A i \in Slots : runs[i].pc \in {"idle", "done"}

\* Two requests, one after the other, each a POST or a status change of
\* the first service; any store call after the first of a handler may fail.
NextFallos ==
  \/ \E i \in Slots, u \in Users,
        body \in {AguaMensual, GasUnico,
                  [GasUnico EXCEPT !.vencimiento = Str(<<"m", "a", "r", "z", "o">>)]} :
       NoneInFlight /\ PostCreate(i, u, body)
  \/ \E i \in Slots : PostCreateMany(i)
  \/ \E i \in Slots, u \in Users, id \in Ids,
        estado \in {"pagado", "por_pagar", "vencido"} :
       NoneInFlight /\ PatchFindUnique(i, u, id, estado)
  \/ \E i \in Slots : PatchUpdate(i)
  \/ \E i \in Slots : PatchFindFirst(i)
  \/ \E i \in Slots : PatchCreate(i)
  \/ \E i \in Slots : PatchDeleteMany(i)
  \/ \E i \in Slots : StoreCallFails(i)

SpecFallos == Init /\ [][NextFallos]_vars

\* C21 as claimed: when a request is answered 500, the services and the
\* transactions are those the request found.
C21_ErrorLeavesStore ==
  [][\A i \in Slots :
       (runs'[i].status = 500 /\ runs[i].status # 500) =>
         /\ servicios' = runs'[i].antes
         /\ transacciones' = runs'[i].antesTransacciones
  ]_vars

====
